---- MODULE Spec2Model ----
(***************************************************************************)
(* Model of scripts/docstring.py: the script asks for a prefix choice,     *)
(* waits for the user to put text into text.rs, reads the file's lines,    *)
(* prefixes each with "///" or "//!" and writes the result back in place.  *)
(* Text is modelled as a sequence of one-character strings.                *)
(***************************************************************************)
EXTENDS Integers, Sequences, FiniteSets

VARIABLES pc,          \* position of the script
          choiceText,  \* what the user typed at the first prompt
          prefix,      \* the variable `prefix`
          linesep,     \* os.linesep of the host
          exists,      \* whether IN_OUT_PATH exists
          content,     \* the bytes of IN_OUT_PATH on disk
          userFile,    \* the file as the environment last left it
          lines,       \* the list returned by f_in.readlines()
          idx,         \* index of the next line of the for loop
          output,      \* the variable `output`
          echoed,      \* the lines printed by print(line)
          console,     \* the prompts and messages shown
          openHandles, \* the handles on IN_OUT_PATH that are open
          fileEvents,  \* the opens and closes of IN_OUT_PATH so far
          err          \* the exception that ended the run, or "none"

vars == <<pc, choiceText, prefix, linesep, exists, content, userFile, lines,
          idx, output, echoed, console, openHandles, fileEvents, err>>

\* ---------------------------------------------------------------- bounds
MaxLen == 3

\* ------------------------------------------------------------ characters
NL == "\n"
CR == "\r"
SP == " "

FileChars == {"a", SP, NL, CR}

RECURSIVE SeqsUpTo(_, _)
SeqsUpTo(S, n) ==
    IF n = 0 THEN {<<>>}
    ELSE LET shorter == SeqsUpTo(S, n - 1)
         IN  shorter \cup {Append(s, c) : s \in {t \in shorter : Len(t) = n - 1}, c \in S}

Contents == SeqsUpTo(FileChars, MaxLen)

ChoiceTexts == { <<"0">>, <<"1">>, <<"2">>, <<"5">>, <<"-", "1">>, <<"-", "0">>,
                 <<"x">>, <<>> }

LineSeps == { <<NL>>, <<CR, NL>> }

IsPrefix(p, s) == Len(p) <= Len(s) /\ SubSeq(s, 1, Len(p)) = p

IsSuffix(p, s) == Len(p) <= Len(s) /\ SubSeq(s, Len(s) - Len(p) + 1, Len(s)) = p

\* ------------------------------------------------------------ int(input())
Digits == {"0", "1", "2", "5"}

DigitVal(c) == IF c = "0" THEN 0 ELSE IF c = "1" THEN 1 ELSE IF c = "2" THEN 2 ELSE 5

AllDigits(t) == Len(t) > 0 /\ \A i \in 1..Len(t) : t[i] \in Digits

RECURSIVE DigitsValue(_)
DigitsValue(t) ==
    IF t = <<>> THEN 0
    ELSE 10 * DigitsValue(SubSeq(t, 1, Len(t) - 1)) + DigitVal(t[Len(t)])

\* int(text) raises ValueError unless text is an optional sign and digits
IsIntText(t) ==
    IF t # <<>> /\ Head(t) \in {"-", "+"} THEN AllDigits(Tail(t)) ELSE AllDigits(t)

IntValue(t) ==
    IF Head(t) = "-" THEN 0 - DigitsValue(Tail(t))
    ELSE IF Head(t) = "+" THEN DigitsValue(Tail(t))
    ELSE DigitsValue(t)

\* ------------------------------------------------------- text-mode file I/O
\* reading with newline=None: "\r\n" and "\r" arrive as "\n"
RECURSIVE Decode(_)
Decode(s) ==
    IF s = <<>> THEN <<>>
    ELSE IF Head(s) = CR
         THEN IF Len(s) > 1 /\ s[2] = NL
              THEN <<NL>> \o Decode(Tail(Tail(s)))
              ELSE <<NL>> \o Decode(Tail(s))
         ELSE <<Head(s)>> \o Decode(Tail(s))

\* writing with newline=None: "\n" leaves as os.linesep
RECURSIVE Encode(_, _)
Encode(s, sep) ==
    IF s = <<>> THEN <<>>
    ELSE IF Head(s) = NL THEN sep \o Encode(Tail(s), sep)
         ELSE <<Head(s)>> \o Encode(Tail(s), sep)

\* readlines(): split after each "\n", terminators kept
RECURSIVE SplitAcc(_, _, _)
SplitAcc(s, cur, acc) ==
    IF s = <<>> THEN (IF cur = <<>> THEN acc ELSE Append(acc, cur))
    ELSE IF Head(s) = NL
         THEN SplitAcc(Tail(s), <<>>, Append(acc, Append(cur, NL)))
         ELSE SplitAcc(Tail(s), Append(cur, Head(s)), acc)

SplitLines(s) == SplitAcc(s, <<>>, <<>>)

ReadLines(bytes) == SplitLines(Decode(bytes))

\* ------------------------------------------------------------------- Init
Init ==
    /\ pc = "choice"
    /\ choiceText = <<>>
    /\ prefix = <<>>
    /\ linesep \in LineSeps
    /\ exists \in BOOLEAN
    /\ content \in (IF exists THEN Contents ELSE {<<>>})
    /\ userFile = [exists |-> exists, content |-> content]
    /\ lines = <<>>
    /\ idx = 1
    /\ output = <<>>
    /\ echoed = <<>>
    /\ console = <<>>
    /\ openHandles = {}
    /\ fileEvents = <<>>
    /\ err = "none"

\* ---------------------------------------------------------------- actions
\* lines 8-11: prefix = "///" if int(input(...)) == 0 else "//!"
SelectMarker_one ==
    /\ pc = "choice"
    /\ \E t \in ChoiceTexts :
         /\ choiceText' = t
         /\ console' = Append(console, "prompt_choice")
         /\ IF IsIntText(t)
            THEN /\ prefix' = (IF IntValue(t) = 1 THEN <<"/", "/", "!">> ELSE <<"/", "/", "/">>)
                 /\ pc' = "wait"
                 /\ err' = err
            ELSE /\ prefix' = prefix
                 /\ pc' = "failed"
                 /\ err' = "ValueError"
    /\ UNCHANGED <<linesep, exists, content, userFile, lines, idx, output,
                   echoed, openHandles, fileEvents>>

SelectMarker_default ==
    /\ pc = "choice"
    /\ \E t \in ChoiceTexts :
         /\ choiceText' = t
         /\ console' = Append(console, "prompt_choice")
         /\ prefix' = (IF IsIntText(t) /\ IntValue(t) = 0
                       THEN <<"/", "/", "/">> ELSE <<"/", "/", "!">>)
         /\ pc' = "wait"
         /\ err' = err
    /\ UNCHANGED <<linesep, exists, content, userFile, lines, idx, output,
                   echoed, openHandles, fileEvents>>

SelectMarker ==
    /\ pc = "choice"
    /\ \E t \in ChoiceTexts :
         /\ choiceText' = t
         /\ console' = Append(console, "prompt_choice")
         /\ IF IsIntText(t)
            THEN /\ prefix' = (IF IntValue(t) = 0 THEN <<"/", "/", "/">> ELSE <<"/", "/", "!">>)
                 /\ pc' = "wait"
                 /\ err' = err
            ELSE /\ prefix' = prefix
                 /\ pc' = "failed"
                 /\ err' = "ValueError"
    /\ UNCHANGED <<linesep, exists, content, userFile, lines, idx, output,
                   echoed, openHandles, fileEvents>>

\* line 13: the script blocks in input() while the user prepares the file
WaitForUserInput ==
    /\ pc = "wait"
    /\ console' = Append(console, "prompt_wait")
    /\ \E e \in BOOLEAN :
         \E c \in (IF e THEN Contents ELSE {<<>>}) :
            /\ exists' = e
            /\ content' = c
            /\ userFile' = [exists |-> e, content |-> c]
    /\ pc' = "openRead"
    /\ UNCHANGED <<choiceText, prefix, linesep, lines, idx, output, echoed,
                   openHandles, fileEvents, err>>

\* line 17: open(IN_OUT_PATH, "r")
OpenRead_swallow ==
    /\ pc = "openRead"
    /\ \E permitted \in BOOLEAN :
         IF exists /\ permitted
         THEN /\ openHandles' = openHandles \cup {"f_in"}
              /\ fileEvents' = Append(fileEvents, "open_r")
              /\ pc' = "readLines"
         ELSE /\ pc' = "openWrite"
              /\ UNCHANGED <<openHandles, fileEvents>>
    /\ UNCHANGED <<choiceText, prefix, linesep, exists, content, userFile,
                   lines, idx, output, echoed, console, err>>

OpenRead ==
    /\ pc = "openRead"
    /\ \E permitted \in BOOLEAN :
         IF exists /\ permitted
         THEN /\ openHandles' = openHandles \cup {"f_in"}
              /\ fileEvents' = Append(fileEvents, "open_r")
              /\ pc' = "readLines"
              /\ err' = err
         ELSE /\ pc' = "failed"
              /\ err' = "open_read"
              /\ UNCHANGED <<openHandles, fileEvents>>
    /\ UNCHANGED <<choiceText, prefix, linesep, exists, content, userFile,
                   lines, idx, output, echoed, console>>

\* line 18: f_in.readlines()
ReadLinesCall ==
    /\ pc = "readLines"
    /\ \/ /\ lines' = ReadLines(content)
          /\ idx' = 1
          /\ pc' = "loop"
          /\ err' = err
       \/ /\ pc' = "exitReadErr"
          /\ err' = "read"
          /\ UNCHANGED <<lines, idx>>
    /\ UNCHANGED <<choiceText, prefix, linesep, exists, content, userFile,
                   output, echoed, console, openHandles, fileEvents>>

\* line 19: len(line) == 1
IsEmptyLine_blank(line) == \A i \in 1..Len(line) : line[i] \in {SP, NL}

IsEmptyLine(line) == Len(line) = 1

\* lines 19-20: output += f"{prefix}{line}"
AppendEmpty_strip ==
    /\ pc = "loop"
    /\ idx <= Len(lines)
    /\ IsEmptyLine(lines[idx])
    /\ output' = output \o prefix
    /\ idx' = idx + 1
    /\ UNCHANGED <<pc, choiceText, prefix, linesep, exists, content, userFile,
                   lines, echoed, console, openHandles, fileEvents, err>>

AppendEmpty ==
    /\ pc = "loop"
    /\ idx <= Len(lines)
    /\ IsEmptyLine(lines[idx])
    /\ output' = output \o prefix \o lines[idx]
    /\ idx' = idx + 1
    /\ UNCHANGED <<pc, choiceText, prefix, linesep, exists, content, userFile,
                   lines, echoed, console, openHandles, fileEvents, err>>

\* lines 21-22: print(line)
Echo_skip ==
    /\ pc = "loop"
    /\ idx <= Len(lines)
    /\ ~IsEmptyLine(lines[idx])
    /\ pc' = "append"
    /\ UNCHANGED <<echoed, err>>
    /\ UNCHANGED <<choiceText, prefix, linesep, exists, content, userFile,
                   lines, idx, output, console, openHandles, fileEvents>>

Echo ==
    /\ pc = "loop"
    /\ idx <= Len(lines)
    /\ ~IsEmptyLine(lines[idx])
    /\ \/ /\ echoed' = Append(echoed, lines[idx])
          /\ pc' = "append"
          /\ err' = err
       \/ /\ pc' = "exitReadErr"
          /\ err' = "print"
          /\ UNCHANGED echoed
    /\ UNCHANGED <<choiceText, prefix, linesep, exists, content, userFile,
                   lines, idx, output, console, openHandles, fileEvents>>

\* line 23: output += f"{prefix} {line}"
AppendNonEmpty ==
    /\ pc = "append"
    /\ output' = output \o prefix \o <<SP>> \o lines[idx]
    /\ idx' = idx + 1
    /\ pc' = "loop"
    /\ UNCHANGED <<choiceText, prefix, linesep, exists, content, userFile,
                   lines, echoed, console, openHandles, fileEvents, err>>

\* line 17: the with block is left normally, f_in is closed
CloseRead ==
    /\ pc = "loop"
    /\ idx > Len(lines)
    /\ openHandles' = openHandles \ {"f_in"}
    /\ fileEvents' = Append(fileEvents, "close")
    /\ pc' = "openWrite"
    /\ UNCHANGED <<choiceText, prefix, linesep, exists, content, userFile,
                   lines, idx, output, echoed, console, err>>

\* line 17: the with block is left by an exception, f_in is closed
CloseReadErr_leak ==
    /\ pc = "exitReadErr"
    /\ pc' = "failed"
    /\ UNCHANGED <<choiceText, prefix, linesep, exists, content, userFile,
                   lines, idx, output, echoed, console, openHandles,
                   fileEvents, err>>

CloseReadErr ==
    /\ pc = "exitReadErr"
    /\ openHandles' = openHandles \ {"f_in"}
    /\ fileEvents' = Append(fileEvents, "close")
    /\ pc' = "failed"
    /\ UNCHANGED <<choiceText, prefix, linesep, exists, content, userFile,
                   lines, idx, output, echoed, console, err>>

\* line 25: open(IN_OUT_PATH, "w+") creates or truncates the file
OpenWrite_append ==
    /\ pc = "openWrite"
    /\ \E permitted \in BOOLEAN :
         IF permitted
         THEN /\ exists' = TRUE
              /\ content' = content
              /\ openHandles' = openHandles \cup {"f_out"}
              /\ fileEvents' = Append(fileEvents, "open_w")
              /\ pc' = "write"
              /\ err' = err
         ELSE /\ pc' = "failed"
              /\ err' = "open_write"
              /\ UNCHANGED <<exists, content, openHandles, fileEvents>>
    /\ UNCHANGED <<choiceText, prefix, linesep, userFile, lines, idx, output,
                   echoed, console>>

OpenWrite ==
    /\ pc = "openWrite"
    /\ \E permitted \in BOOLEAN :
         IF permitted
         THEN /\ exists' = TRUE
              /\ content' = <<>>
              /\ openHandles' = openHandles \cup {"f_out"}
              /\ fileEvents' = Append(fileEvents, "open_w")
              /\ pc' = "write"
              /\ err' = err
         ELSE /\ pc' = "failed"
              /\ err' = "open_write"
              /\ UNCHANGED <<exists, content, openHandles, fileEvents>>
    /\ UNCHANGED <<choiceText, prefix, linesep, userFile, lines, idx, output,
                   echoed, console>>

\* line 26: f_out.write(output); any part of the data may have reached the
\* disk when the call returns or raises, the rest sits in the buffer
Write ==
    /\ pc = "write"
    /\ LET data == Encode(output, linesep)
       IN  \E k \in 0..Len(data) :
              /\ content' = SubSeq(data, 1, k)
              /\ \/ /\ pc' = "closeWrite"
                    /\ err' = err
                 \/ /\ pc' = "exitWriteErr"
                    /\ err' = "write"
    /\ UNCHANGED <<choiceText, prefix, linesep, exists, userFile, lines, idx,
                   output, echoed, console, openHandles, fileEvents>>

\* line 25: the with block is left normally; close() flushes the buffer and
\* releases the handle whether or not the flush succeeds
CloseWrite ==
    /\ pc = "closeWrite"
    /\ LET data == Encode(output, linesep)
       IN  \E k \in Len(content)..Len(data) :
              /\ content' = SubSeq(data, 1, k)
              /\ IF k = Len(data)
                 THEN pc' = "confirm" /\ err' = err
                 ELSE pc' = "failed" /\ err' = "write"
    /\ openHandles' = openHandles \ {"f_out"}
    /\ fileEvents' = Append(fileEvents, "close")
    /\ UNCHANGED <<choiceText, prefix, linesep, exists, userFile, lines, idx,
                   output, echoed, console>>

\* line 25: the with block is left by the exception of write()
CloseWriteErr ==
    /\ pc = "exitWriteErr"
    /\ LET data == Encode(output, linesep)
       IN  \E k \in Len(content)..Len(data) : content' = SubSeq(data, 1, k)
    /\ openHandles' = openHandles \ {"f_out"}
    /\ fileEvents' = Append(fileEvents, "close")
    /\ pc' = "failed"
    /\ UNCHANGED <<choiceText, prefix, linesep, exists, userFile, lines, idx,
                   output, echoed, console, err>>

\* line 28: print(f"Saved to ...")
Confirm ==
    /\ pc = "confirm"
    /\ console' = Append(console, "saved")
    /\ pc' = "done"
    /\ UNCHANGED <<choiceText, prefix, linesep, exists, content, userFile,
                   lines, idx, output, echoed, openHandles, fileEvents, err>>

Next ==
    \/ SelectMarker
    \/ WaitForUserInput
    \/ OpenRead
    \/ ReadLinesCall
    \/ AppendEmpty
    \/ Echo
    \/ AppendNonEmpty
    \/ CloseRead
    \/ CloseReadErr
    \/ OpenWrite
    \/ Write
    \/ CloseWrite
    \/ CloseWriteErr
    \/ Confirm

Spec == Init /\ [][Next]_vars

\* ------------------------------------------------------------ properties
LineMarker == <<"/", "/", "/">>
ModuleMarker == <<"/", "/", "!">>

Finished == pc \in {"done", "failed"}

\* the lines of the text accumulated in `output`
OutLines == SplitLines(output)

\* the number of source lines whose transformed form has been appended
Appended == idx - 1

FileUntouched == exists = userFile.exists /\ content = userFile.content

Count(seq, x) == Cardinality({i \in 1..Len(seq) : seq[i] = x})

C2_LineCountAndOrder ==
    pc = "done" =>
        LET written == ReadLines(content)
            source  == ReadLines(userFile.content)
        IN  /\ Len(written) = Len(source)
            /\ \A i \in 1..Len(source) :
                 /\ IsSuffix(source[i], written[i])
                 /\ Len(written[i]) > Len(source[i])

C2_Witness ==
    /\ pc = "done"
    /\ Len(lines) >= 2
    /\ lines[1] = <<NL>>
    /\ lines[Len(lines)][Len(lines[Len(lines)])] # NL

\* C3: stripping the marker and then one optional space from the i-th
\* output line gives back the i-th input line, for every line.
StripMarker(w) ==
    LET rest == IF IsPrefix(prefix, w) THEN SubSeq(w, Len(prefix) + 1, Len(w)) ELSE w
    IN  IF rest # <<>> /\ Head(rest) = SP THEN Tail(rest) ELSE rest

C3_Recoverable ==
    \A i \in 1..Appended :
        i <= Len(OutLines) => StripMarker(OutLines[i]) = lines[i]

\* C4: 0 selects "///" and every other integer "//!"; the marker is chosen
\* before the file is touched, never changes afterwards, and prefixes every
\* line of the output.
C4_Selected ==
    /\ pc = "choice" => (fileEvents = <<>> /\ output = <<>>)
    /\ (pc # "choice" /\ IsIntText(choiceText)) =>
          prefix = (IF IntValue(choiceText) = 0 THEN LineMarker ELSE ModuleMarker)
    /\ \A i \in 1..Len(OutLines) : IsPrefix(prefix, OutLines[i])

C4_MarkerSelection ==
    /\ []C4_Selected
    /\ [][pc # "choice" => prefix' = prefix]_vars

C4_Witness ==
    /\ pc = "done"
    /\ choiceText = <<"-", "1">>
    /\ prefix = ModuleMarker
    /\ Len(lines) >= 2

\* C5: when the file cannot be opened for reading the run has failed with
\* the file-access error, nothing was opened for writing, no confirmation
\* was printed and the file is as the user left it.
C5_ReadOpenFailure ==
    (pc \notin {"choice", "wait", "openRead"} /\ IsIntText(choiceText)
       /\ fileEvents = <<>>) =>
        /\ pc = "failed"
        /\ err = "open_read"
        /\ Count(console, "saved") = 0
        /\ openHandles = {}
        /\ FileUntouched

C5_Witness == err = "open_read" /\ ~exists /\ pc = "failed"

\* C6 (as written): a write step that fails leaves the file with its
\* original content or with the complete transformed content.
C6_NeverHalfWritten ==
    (pc = "failed" /\ err \in {"open_write", "write"}) =>
        /\ exists
        /\ \/ content = userFile.content
           \/ content = Encode(output, linesep)

\* C6 (amended): a failure to open for writing leaves the file untouched;
\* once it is opened for writing the file holds a prefix, possibly empty
\* or partial, of the transformed content, and all of it on success.
C6_PrefixWritten ==
    /\ err = "open_write" => (pc = "failed" /\ FileUntouched)
    /\ ("f_out" \in openHandles \/ err = "write") =>
          (exists /\ IsPrefix(content, Encode(output, linesep)))
    /\ pc \in {"confirm", "done"} => content = Encode(output, linesep)

C6_Witness ==
    /\ pc = "failed"
    /\ err = "write"
    /\ content # <<>>
    /\ content # userFile.content
    /\ content # Encode(output, linesep)

\* C7: text that is not an integer ends the run at the first prompt: one
\* prompt shown, no wait prompt, no file access, the file unchanged.
C7_InvalidChoice ==
    (pc # "choice" /\ ~IsIntText(choiceText)) =>
        /\ pc = "failed"
        /\ err = "ValueError"
        /\ console = <<"prompt_choice">>
        /\ fileEvents = <<>>
        /\ openHandles = {}
        /\ FileUntouched

C7_Witness == pc = "failed" /\ choiceText = <<"x">> /\ exists /\ content # <<>>

\* C8: the file-access events are a prefix of open-for-read, close,
\* open-for-write, close; at most one handle is open at a time and none
\* once the process has ended.
C8_ScopedHandles ==
    /\ IsPrefix(fileEvents, <<"open_r", "close", "open_w", "close">>)
    /\ Cardinality(openHandles) <= 1
    /\ "f_in" \in openHandles <=> fileEvents = <<"open_r">>
    /\ "f_out" \in openHandles <=> Len(fileEvents) = 3
    /\ Finished => openHandles = {}

C8_Witness ==
    /\ pc = "failed"
    /\ err = "print"
    /\ fileEvents = <<"open_r", "close">>

\* the source lines the loop has reached, the current one included once
\* it has been echoed
Reached == IF pc = "append" THEN SubSeq(lines, 1, idx) ELSE SubSeq(lines, 1, idx - 1)

NotLengthOne(line) == Len(line) # 1

\* C9 (as written): every source line, empty or not, is echoed once, in
\* order, before its transformed form is appended.
C9_EchoEveryLine ==
    err = "none" => (echoed = Reached /\ Len(OutLines) = Appended)

\* C9 (amended): exactly the source lines of raw length other than 1 are
\* echoed, once each, in order, each before its transformed form is
\* appended; lines of raw length 1 are not echoed.
C9_EchoNonEmptyLines ==
    err = "none" =>
        (echoed = SelectSeq(Reached, NotLengthOne) /\ Len(OutLines) = Appended)

C9_Witness ==
    /\ pc = "done"
    /\ Len(echoed) >= 1
    /\ Len(echoed) < Len(lines)

\* C10: every line written as marker immediately followed by the line
\* consists of a line terminator only.
C10_EmptyMeansTerminatorOnly ==
    \A i \in 1..Appended :
        (i <= Len(OutLines) /\ OutLines[i] = prefix \o lines[i]) => lines[i] = <<NL>>

====
